---- MODULE Spec2Model ----
(***************************************************************************)
(* Model of spot_driver_cpp's DefaultRobotStateClient::getRobotState and   *)
(* of the conversion helpers of default_robot_state_client.cpp, together   *)
(* with spot_driver's DefaultStateClient::getRobotState.                   *)
(***************************************************************************)
EXTENDS Integers, Sequences, FiniteSets, TLC

VARIABLES pc, get_robot_state_result, clock_skew_result, out, skew_lookups,
          fn_in, fn_tf, fn_odom

vars == <<pc, get_robot_state_result, clock_skew_result, out, skew_lookups,
          fn_in, fn_tf, fn_odom>>

cycle_vars == <<pc, get_robot_state_result, clock_skew_result, out, skew_lookups>>

fn_vars == <<fn_in, fn_tf, fn_odom>>

(***************************************************************************)
(* Bounds of the model.                                                    *)
(***************************************************************************)
MaxJoints == 2

MaxEdges == 2

(***************************************************************************)
(* Program constants.                                                      *)
(***************************************************************************)
NanosPerSecond == 1000000000

kFriendlyJointNames ==
    [n \in {"fl.hx", "fl.hy", "fl.kn", "fr.hx", "fr.hy", "fr.kn",
            "hl.hx", "hl.hy", "hl.kn", "hr.hx", "hr.hy", "hr.kn",
            "arm0.sh0", "arm0.sh1", "arm0.hr0", "arm0.el0", "arm0.el1",
            "arm0.wr0", "arm0.wr1", "arm0.f1x"} |->
        CASE n = "fl.hx" -> "front_left_hip_x"
          [] n = "fl.hy" -> "front_left_hip_y"
          [] n = "fl.kn" -> "front_left_knee"
          [] n = "fr.hx" -> "front_right_hip_x"
          [] n = "fr.hy" -> "front_right_hip_y"
          [] n = "fr.kn" -> "front_right_knee"
          [] n = "hl.hx" -> "rear_left_hip_x"
          [] n = "hl.hy" -> "rear_left_hip_y"
          [] n = "hl.kn" -> "rear_left_knee"
          [] n = "hr.hx" -> "rear_right_hip_x"
          [] n = "hr.hy" -> "rear_right_hip_y"
          [] n = "hr.kn" -> "rear_right_knee"
          [] n = "arm0.sh0" -> "arm_sh0"
          [] n = "arm0.sh1" -> "arm_sh1"
          [] n = "arm0.hr0" -> "arm_hr0"
          [] n = "arm0.el0" -> "arm_el0"
          [] n = "arm0.el1" -> "arm_el1"
          [] n = "arm0.wr0" -> "arm_wr0"
          [] n = "arm0.wr1" -> "arm_wr1"
          [] n = "arm0.f1x" -> "arm_f1x"]

\* The literals getRobotState passes to the helpers.
kPrefix == "Opal/"

\* Variant: the target is given in the prefixed frame namespace.
kInverseTargetFrameId_Prefixed == "Opal/body"

kInverseTargetFrameId == "body"

kIsUsingVision == TRUE

\* Frame names of the Spot SDK used by GetWorldTformBody / GetOdomTformBody.
kVisionFrame == "vision"

kOdomFrame == "odom"

kBodyFrame == "body"

(***************************************************************************)
(* std::optional.                                                          *)
(***************************************************************************)
Nullopt == [has_value |-> FALSE]

Some(v) == [has_value |-> TRUE, value |-> v]

(***************************************************************************)
(* Rigid transforms (bosdyn::api::SE3Pose) over integer coordinates.       *)
(***************************************************************************)
Vec3(x, y, z) == [x |-> x, y |-> y, z |-> z]

Quat(x, y, z, w) == [x |-> x, y |-> y, z |-> z, w |-> w]

\* A protobuf message that was never set reads as all zeros.
DefaultSE3Pose == [position |-> Vec3(0, 0, 0), rotation |-> Quat(0, 0, 0, 0)]

IdentitySE3Pose == [position |-> Vec3(0, 0, 0), rotation |-> Quat(0, 0, 0, 1)]

QuatMul(a, b) ==
    Quat(a.w * b.x + a.x * b.w + a.y * b.z - a.z * b.y,
         a.w * b.y - a.x * b.z + a.y * b.w + a.z * b.x,
         a.w * b.z + a.x * b.y - a.y * b.x + a.z * b.w,
         a.w * b.w - a.x * b.x - a.y * b.y - a.z * b.z)

QuatConj(q) == Quat(0 - q.x, 0 - q.y, 0 - q.z, q.w)

\* q * (v, 0) * conj(q)
QuatRotate(q, v) ==
    LET r == QuatMul(QuatMul(q, Quat(v.x, v.y, v.z, 0)), QuatConj(q))
    IN  Vec3(r.x, r.y, r.z)

\* operator~ on SE3Pose
InverseSE3(a) ==
    LET qi == QuatConj(a.rotation)
        p  == QuatRotate(qi, a.position)
    IN  [position |-> Vec3(0 - p.x, 0 - p.y, 0 - p.z), rotation |-> qi]

\* operator* on SE3Pose
ComposeSE3(a, b) ==
    LET p == QuatRotate(a.rotation, b.position)
    IN  [position |-> Vec3(a.position.x + p.x, a.position.y + p.y, a.position.z + p.z),
         rotation |-> QuatMul(a.rotation, b.rotation)]

(***************************************************************************)
(* Frame tree lookups of the Spot SDK.  A FrameTreeSnapshot is the         *)
(* sequence of the entries of child_to_parent_edge_map in iteration order. *)
(***************************************************************************)
HasFrame(snapshot, frame) ==
    \E i \in 1..Len(snapshot) : snapshot[i].child_frame_id = frame

EdgeOf(snapshot, frame) ==
    snapshot[CHOOSE i \in 1..Len(snapshot) : snapshot[i].child_frame_id = frame]

RECURSIVE RootTformFrame(_, _, _)
\* Walks from frame up to the root, accumulating root_tform_frame.
RootTformFrame(snapshot, frame, fuel) ==
    IF fuel = 0 \/ ~HasFrame(snapshot, frame)
    THEN [ok |-> FALSE, root |-> "", pose |-> DefaultSE3Pose]
    ELSE LET edge == EdgeOf(snapshot, frame)
         IN  IF edge.parent_frame_name = ""
             THEN [ok |-> TRUE, root |-> frame, pose |-> IdentitySE3Pose]
             ELSE LET up == RootTformFrame(snapshot, edge.parent_frame_name, fuel - 1)
                  IN  IF up.ok
                      THEN [ok |-> TRUE, root |-> up.root,
                            pose |-> ComposeSE3(up.pose, edge.parent_tform_child)]
                      ELSE up

\* A snapshot is a valid tree: every frame reaches the one root.
ValidateFrameTreeSnapshot(snapshot) ==
    /\ Len(snapshot) > 0
    /\ \A i \in 1..Len(snapshot) :
          RootTformFrame(snapshot, snapshot[i].child_frame_id, Len(snapshot)).ok
    /\ \A i, j \in 1..Len(snapshot) :
          RootTformFrame(snapshot, snapshot[i].child_frame_id, Len(snapshot)).root
            = RootTformFrame(snapshot, snapshot[j].child_frame_id, Len(snapshot)).root

\* get_a_tform_b: the bool result and the value left in the out-parameter,
\* which is untouched (the caller's default-constructed pose) on failure.
get_a_tform_b(snapshot, frame_a, frame_b) ==
    IF /\ ValidateFrameTreeSnapshot(snapshot)
       /\ HasFrame(snapshot, frame_a)
       /\ HasFrame(snapshot, frame_b)
    THEN LET ra == RootTformFrame(snapshot, frame_a, Len(snapshot))
             rb == RootTformFrame(snapshot, frame_b, Len(snapshot))
         IN  [ok |-> TRUE, pose |-> ComposeSE3(InverseSE3(ra.pose), rb.pose)]
    ELSE [ok |-> FALSE, pose |-> DefaultSE3Pose]

GetWorldTformBody(snapshot) == get_a_tform_b(snapshot, kVisionFrame, kBodyFrame)

GetOdomTformBody(snapshot) == get_a_tform_b(snapshot, kOdomFrame, kBodyFrame)

(***************************************************************************)
(* Conversion helpers declared in time_sync_api.hpp and geometry.hpp.      *)
(***************************************************************************)
\* raw robot timestamp + skew, nanoseconds normalised into [0, 1e9).
applyClockSkew(timestamp, clock_skew) ==
    LET nanos == timestamp.nanos + clock_skew.nanos
    IN  [sec     |-> timestamp.seconds + clock_skew.seconds + (nanos \div NanosPerSecond),
         nanosec |-> nanos % NanosPerSecond]

toTransformStamped(transform, parent_frame, child_frame, tf_time) ==
    [stamp     |-> tf_time,
     parent_id |-> parent_frame,
     child_id  |-> child_frame,
     transform |-> transform]

(***************************************************************************)
(* Protobuf defaults: an unset sub-message reads as its default instance.  *)
(***************************************************************************)
DefaultTimestamp == [seconds |-> 0, nanos |-> 0]

DefaultVelocity == [linear |-> Vec3(0, 0, 0), angular |-> Vec3(0, 0, 0)]

DefaultKinematicState ==
    [acquisition_timestamp    |-> DefaultTimestamp,
     joint_states             |-> <<>>,
     transforms_snapshot      |-> <<>>,
     velocity_of_body_in_odom |-> DefaultVelocity]

DefaultPowerState ==
    [timestamp |-> DefaultTimestamp, motor_power_state |-> 0, shore_power_state |-> 0,
     locomotion_charge_percentage |-> 0,
     locomotion_estimated_runtime |-> [seconds |-> 0, nanos |-> 0]]

DefaultSystemFaultState == [faults |-> <<>>, historical_faults |-> <<>>]

DefaultManipulatorState ==
    [gripper_open_percentage |-> 0, is_gripper_holding_item |-> FALSE,
     estimated_end_effector_force_in_hand     |-> Vec3(0, 0, 0),
     has_estimated_end_effector_force_in_hand |-> FALSE,
     stow_state |-> 0,
     velocity_of_hand_in_vision     |-> DefaultVelocity,
     has_velocity_of_hand_in_vision |-> FALSE,
     velocity_of_hand_in_odom       |-> DefaultVelocity,
     has_velocity_of_hand_in_odom   |-> FALSE,
     carry_state |-> 0]

DefaultBehaviorFaultState == [faults |-> <<>>]

Unset(default) == [has |-> FALSE, msg |-> default]

Set(m) == [has |-> TRUE, msg |-> m]

DefaultRobotState ==
    [battery_states       |-> <<>>,
     comms_states         |-> <<>>,
     foot_state           |-> <<>>,
     estop_states         |-> <<>>,
     kinematic_state      |-> Unset(DefaultKinematicState),
     power_state          |-> Unset(DefaultPowerState),
     system_fault_state   |-> Unset(DefaultSystemFaultState),
     manipulator_state    |-> Unset(DefaultManipulatorState),
     behavior_fault_state |-> Unset(DefaultBehaviorFaultState)]

(***************************************************************************)
(* The conversion helpers of default_robot_state_client.cpp.               *)
(***************************************************************************)
GetBatteryStates(robot_state, clock_skew) ==
    [i \in 1..Len(robot_state.battery_states) |->
        LET battery == robot_state.battery_states[i]
        IN  [stamp             |-> applyClockSkew(battery.timestamp, clock_skew),
             identifier        |-> battery.identifier,
             charge_percentage |-> battery.charge_percentage,
             estimated_runtime |-> [sec     |-> battery.estimated_runtime.seconds,
                                    nanosec |-> battery.estimated_runtime.nanos],
             current           |-> battery.current,
             voltage           |-> battery.voltage,
             temperatures      |-> battery.temperatures,
             status            |-> battery.status]]

RECURSIVE WifiFold(_, _, _)
WifiFold(comms_states, i, wifi_state) ==
    IF i > Len(comms_states) THEN wifi_state
    ELSE WifiFold(comms_states, i + 1,
                  IF comms_states[i].has_wifi_state
                  THEN [current_mode |-> comms_states[i].wifi_state.current_mode,
                        essid        |-> comms_states[i].wifi_state.essid]
                  ELSE wifi_state)

GetWifiState(robot_state) ==
    WifiFold(robot_state.comms_states, 1, [current_mode |-> 0, essid |-> ""])

GetFootState(robot_state) ==
    [i \in 1..Len(robot_state.foot_state) |->
        [foot_position_rt_body |-> robot_state.foot_state[i].foot_position_rt_body,
         contact               |-> robot_state.foot_state[i].contact]]

GetEstopStates(robot_state, clock_skew) ==
    [i \in 1..Len(robot_state.estop_states) |->
        LET estop == robot_state.estop_states[i]
        IN  [stamp             |-> applyClockSkew(estop.timestamp, clock_skew),
             name              |-> estop.name,
             type              |-> estop.type,
             state             |-> estop.state,
             state_description |-> estop.state_description]]

RECURSIVE JointLoop_SkipUnknown(_, _, _, _)
\* Variant: a joint whose name is not in the table is skipped.
JointLoop_SkipUnknown(joints, i, prefix, joint_states) ==
    IF i > Len(joints) THEN [threw |-> FALSE, ret |-> Some(joint_states)]
    ELSE IF joints[i].name \notin DOMAIN kFriendlyJointNames
         THEN JointLoop_SkipUnknown(joints, i + 1, prefix, joint_states)
         ELSE JointLoop_SkipUnknown(joints, i + 1, prefix,
                [stamp    |-> joint_states.stamp,
                 name     |-> Append(joint_states.name,
                                     prefix \o kFriendlyJointNames[joints[i].name]),
                 position |-> Append(joint_states.position, joints[i].position),
                 velocity |-> Append(joint_states.velocity, joints[i].velocity),
                 effort   |-> Append(joint_states.effort, joints[i].load)])

RECURSIVE JointLoop(_, _, _, _)
\* The loop of GetJointStates; map::at throws std::out_of_range on a
\* missing key, which abandons the loop.
JointLoop(joints, i, prefix, joint_states) ==
    IF i > Len(joints) THEN [threw |-> FALSE, ret |-> Some(joint_states)]
    ELSE IF joints[i].name \notin DOMAIN kFriendlyJointNames
         THEN [threw |-> TRUE, ret |-> Nullopt]
         ELSE JointLoop(joints, i + 1, prefix,
                [stamp    |-> joint_states.stamp,
                 name     |-> Append(joint_states.name,
                                     prefix \o kFriendlyJointNames[joints[i].name]),
                 position |-> Append(joint_states.position, joints[i].position),
                 velocity |-> Append(joint_states.velocity, joints[i].velocity),
                 effort   |-> Append(joint_states.effort, joints[i].load)])

GetJointStates(robot_state, clock_skew, prefix) ==
    IF robot_state.kinematic_state.has
    THEN JointLoop(robot_state.kinematic_state.msg.joint_states, 1, prefix,
                   [stamp    |-> applyClockSkew(
                                   robot_state.kinematic_state.msg.acquisition_timestamp,
                                   clock_skew),
                    name |-> <<>>, position |-> <<>>, velocity |-> <<>>, effort |-> <<>>])
    ELSE [threw |-> FALSE, ret |-> Nullopt]

\* Variant: the inverted edge keeps the frame roles of the stored edge.
GetTf_NoSwap(robot_state, clock_skew, prefix, inverse_target_frame_id) ==
    IF robot_state.kinematic_state.has
    THEN LET edges == robot_state.kinematic_state.msg.transforms_snapshot
             local_time == applyClockSkew(
                             robot_state.kinematic_state.msg.acquisition_timestamp,
                             clock_skew)
         IN  Some([transforms |->
               [i \in 1..Len(edges) |->
                  toTransformStamped(
                      IF inverse_target_frame_id = prefix \o edges[i].child_frame_id
                      THEN InverseSE3(edges[i].parent_tform_child)
                      ELSE edges[i].parent_tform_child,
                      prefix \o edges[i].parent_frame_name,
                      prefix \o edges[i].child_frame_id,
                      local_time)]])
    ELSE Nullopt

\* Variant: the parent frame name is emitted without the prefix.
GetTf_UnprefixedParent(robot_state, clock_skew, prefix, inverse_target_frame_id) ==
    IF robot_state.kinematic_state.has
    THEN LET edges == robot_state.kinematic_state.msg.transforms_snapshot
             local_time == applyClockSkew(
                             robot_state.kinematic_state.msg.acquisition_timestamp,
                             clock_skew)
         IN  Some([transforms |->
               [i \in 1..Len(edges) |->
                  IF inverse_target_frame_id = prefix \o edges[i].child_frame_id
                  THEN toTransformStamped(InverseSE3(edges[i].parent_tform_child),
                                          prefix \o edges[i].child_frame_id,
                                          edges[i].parent_frame_name,
                                          local_time)
                  ELSE toTransformStamped(edges[i].parent_tform_child,
                                          edges[i].parent_frame_name,
                                          prefix \o edges[i].child_frame_id,
                                          local_time)]])
    ELSE Nullopt

GetTf(robot_state, clock_skew, prefix, inverse_target_frame_id) ==
    IF robot_state.kinematic_state.has
    THEN LET edges == robot_state.kinematic_state.msg.transforms_snapshot
             local_time == applyClockSkew(
                             robot_state.kinematic_state.msg.acquisition_timestamp,
                             clock_skew)
         IN  Some([transforms |->
               [i \in 1..Len(edges) |->
                  IF inverse_target_frame_id = prefix \o edges[i].child_frame_id
                  THEN toTransformStamped(InverseSE3(edges[i].parent_tform_child),
                                          prefix \o edges[i].child_frame_id,
                                          prefix \o edges[i].parent_frame_name,
                                          local_time)
                  ELSE toTransformStamped(edges[i].parent_tform_child,
                                          prefix \o edges[i].parent_frame_name,
                                          prefix \o edges[i].child_frame_id,
                                          local_time)]])
    ELSE Nullopt

\* Variant: the twist is stamped with the robot's own clock.
GetOdomTwist_RawStamp(robot_state, clock_skew) ==
    IF robot_state.kinematic_state.has
    THEN LET velocity == robot_state.kinematic_state.msg.velocity_of_body_in_odom
         IN  Some([stamp |-> applyClockSkew(
                               robot_state.kinematic_state.msg.acquisition_timestamp,
                               [seconds |-> 0, nanos |-> 0]),
                   twist |-> [linear  |-> Vec3(velocity.linear.x,
                                               velocity.linear.y,
                                               velocity.linear.z),
                              angular |-> Vec3(velocity.linear.x,
                                               velocity.angular.y,
                                               velocity.angular.z)]])
    ELSE Nullopt

GetOdomTwist(robot_state, clock_skew) ==
    IF robot_state.kinematic_state.has
    THEN LET velocity == robot_state.kinematic_state.msg.velocity_of_body_in_odom
         IN  Some([stamp |-> applyClockSkew(
                               robot_state.kinematic_state.msg.acquisition_timestamp,
                               clock_skew),
                   twist |-> [linear  |-> Vec3(velocity.linear.x,
                                               velocity.linear.y,
                                               velocity.linear.z),
                              angular |-> Vec3(velocity.linear.x,
                                               velocity.angular.y,
                                               velocity.angular.z)]])
    ELSE Nullopt

\* Variant: the frame id ignores the reference-frame choice.
GetOdom_AlwaysVision(robot_state, clock_skew, prefix, is_using_vision) ==
    IF robot_state.kinematic_state.has
    THEN LET snapshot == robot_state.kinematic_state.msg.transforms_snapshot
             tf_body_pose == IF is_using_vision
                             THEN GetWorldTformBody(snapshot).pose
                             ELSE GetOdomTformBody(snapshot).pose
         IN  Some([stamp |-> applyClockSkew(
                               robot_state.kinematic_state.msg.acquisition_timestamp,
                               clock_skew),
                   frame_id |-> prefix \o "vision",
                   child_frame_id |-> prefix \o "body",
                   pose  |-> [position    |-> tf_body_pose.position,
                              orientation |-> tf_body_pose.rotation],
                   twist |-> GetOdomTwist(robot_state, clock_skew).value.twist])
    ELSE Nullopt

GetOdom(robot_state, clock_skew, prefix, is_using_vision) ==
    IF robot_state.kinematic_state.has
    THEN LET snapshot == robot_state.kinematic_state.msg.transforms_snapshot
             \* the bool result of the lookup is discarded; only the
             \* out-parameter is read
             tf_body_pose == IF is_using_vision
                             THEN GetWorldTformBody(snapshot).pose
                             ELSE GetOdomTformBody(snapshot).pose
         IN  Some([stamp |-> applyClockSkew(
                               robot_state.kinematic_state.msg.acquisition_timestamp,
                               clock_skew),
                   frame_id |-> IF is_using_vision THEN prefix \o "vision"
                                                   ELSE prefix \o "odom",
                   child_frame_id |-> prefix \o "body",
                   pose  |-> [position    |-> tf_body_pose.position,
                              orientation |-> tf_body_pose.rotation],
                   twist |-> GetOdomTwist(robot_state, clock_skew).value.twist])
    ELSE Nullopt

GetPowerState(robot_state, clock_skew) ==
    IF robot_state.power_state.has
    THEN LET power == robot_state.power_state.msg
         IN  Some([stamp |-> applyClockSkew(power.timestamp, clock_skew),
                   motor_power_state |-> power.motor_power_state,
                   shore_power_state |-> power.shore_power_state,
                   locomotion_charge_percentage |-> power.locomotion_charge_percentage,
                   locomotion_estimated_runtime |->
                       [sec     |-> power.locomotion_estimated_runtime.seconds,
                        nanosec |-> power.locomotion_estimated_runtime.nanos]])
    ELSE Nullopt

create_fault_message(fault, clock_skew) ==
    [name          |-> fault.name,
     stamp         |-> applyClockSkew(fault.onset_timestamp, clock_skew),
     duration      |-> [sec |-> fault.duration.seconds, nanosec |-> fault.duration.nanos],
     code          |-> fault.code,
     uid           |-> fault.uid,
     error_message |-> fault.error_message,
     attributes    |-> fault.attributes,
     severity      |-> fault.severity]

GetSystemFaultState(robot_state, clock_skew) ==
    IF robot_state.system_fault_state.has
    THEN LET sfs == robot_state.system_fault_state.msg
         IN  Some([faults |-> [i \in 1..Len(sfs.faults) |->
                                  create_fault_message(sfs.faults[i], clock_skew)],
                   historical_faults |->
                       [i \in 1..Len(sfs.historical_faults) |->
                           create_fault_message(sfs.historical_faults[i], clock_skew)]])
    ELSE Nullopt

GetManipulatorState(robot_state) ==
    IF robot_state.manipulator_state.has
    THEN LET m == robot_state.manipulator_state.msg
         IN  Some([gripper_open_percentage |-> m.gripper_open_percentage,
                   is_gripper_holding_item |-> m.is_gripper_holding_item,
                   estimated_end_effector_force_in_hand |->
                       m.estimated_end_effector_force_in_hand,
                   estimated_end_effector_force_in_hand_is_set |->
                       m.has_estimated_end_effector_force_in_hand,
                   stow_state |-> m.stow_state,
                   velocity_of_hand_in_vision        |-> m.velocity_of_hand_in_vision,
                   velocity_of_hand_in_vision_is_set |-> m.has_velocity_of_hand_in_vision,
                   velocity_of_hand_in_odom          |-> m.velocity_of_hand_in_odom,
                   velocity_of_hand_in_odom_is_set   |-> m.has_velocity_of_hand_in_odom,
                   carry_state |-> m.carry_state])
    ELSE Nullopt

\* Variant: gated on the sub-message whose timestamp is read.
GetEndEffectorForce_KinematicGate(robot_state, clock_skew, prefix) ==
    IF robot_state.kinematic_state.has
    THEN Some([stamp |-> applyClockSkew(
                           robot_state.kinematic_state.msg.acquisition_timestamp,
                           clock_skew),
               frame_id |-> prefix \o "hand",
               vector   |-> robot_state.manipulator_state.msg
                                .estimated_end_effector_force_in_hand])
    ELSE Nullopt

GetEndEffectorForce(robot_state, clock_skew, prefix) ==
    IF robot_state.manipulator_state.has
    THEN Some([stamp |-> applyClockSkew(
                           robot_state.kinematic_state.msg.acquisition_timestamp,
                           clock_skew),
               frame_id |-> prefix \o "hand",
               vector   |-> robot_state.manipulator_state.msg
                                .estimated_end_effector_force_in_hand])
    ELSE Nullopt

GetBehaviorFaultState(robot_state, clock_skew) ==
    IF robot_state.behavior_fault_state.has
    THEN LET faults == robot_state.behavior_fault_state.msg.faults
         IN  Some([faults |-> [i \in 1..Len(faults) |->
                      [behavior_fault_id |-> faults[i].behavior_fault_id,
                       stamp  |-> applyClockSkew(faults[i].onset_timestamp, clock_skew),
                       cause  |-> faults[i].cause,
                       status |-> faults[i].status]]])
    ELSE Nullopt

(***************************************************************************)
(* Bounded input domains.                                                  *)
(***************************************************************************)
Timestamps == {[seconds |-> 100, nanos |-> 0], [seconds |-> 100, nanos |-> 999999999]}

Skews == {[seconds |-> 5, nanos |-> 0],
          [seconds |-> 0, nanos |-> 1],
          [seconds |-> 0 - 1, nanos |-> 0 - 500000000]}

\* a half turn about x after a translation, and a pure translation
Poses == {[position |-> Vec3(1, 2, 3), rotation |-> Quat(1, 0, 0, 0)],
          [position |-> Vec3(0, 1, 0), rotation |-> Quat(0, 0, 0, 1)]}

Frames == {"body", "odom", "vision"}

EdgeEntries ==
    {[child_frame_id |-> c, parent_frame_name |-> p, parent_tform_child |-> t] :
        c \in Frames, p \in Frames \cup {""}, t \in Poses}

\* a protobuf map holds each key once
Graphs ==
    {g \in UNION {[1..n -> {e \in EdgeEntries : e.child_frame_id # e.parent_frame_name}] :
                     n \in 0..MaxEdges} :
        \A i, j \in 1..Len(g) : g[i].child_frame_id = g[j].child_frame_id => i = j}

JointSamples ==
    {[name |-> "fl.hx", position |-> 1, velocity |-> 2, load |-> 3],
     [name |-> "arm0.f1x", position |-> 4, velocity |-> 5, load |-> 6],
     [name |-> "xx.yy", position |-> 7, velocity |-> 8, load |-> 9]}

JointSeqs == UNION {[1..n -> JointSamples] : n \in 0..MaxJoints}

SampleVelocity == [linear |-> Vec3(1, 2, 3), angular |-> Vec3(4, 5, 6)]

SampleJoints ==
    <<[name |-> "fl.hx", position |-> 1, velocity |-> 2, load |-> 3],
      [name |-> "arm0.f1x", position |-> 4, velocity |-> 5, load |-> 6]>>

SampleGraph ==
    <<[child_frame_id |-> "body", parent_frame_name |-> "",
       parent_tform_child |-> [position |-> Vec3(0, 1, 0), rotation |-> Quat(0, 0, 0, 1)]],
      [child_frame_id |-> "vision", parent_frame_name |-> "body",
       parent_tform_child |-> [position |-> Vec3(1, 2, 3), rotation |-> Quat(1, 0, 0, 0)]]>>

Kinematic(ts, joints, graph) ==
    [acquisition_timestamp    |-> ts,
     joint_states             |-> joints,
     transforms_snapshot      |-> graph,
     velocity_of_body_in_odom |-> SampleVelocity]

\* every joint list with the sample graph, every graph with the sample joints
KinematicStates ==
    {Kinematic(ts, joints, SampleGraph) : ts \in Timestamps, joints \in JointSeqs}
      \cup {Kinematic(ts, SampleJoints, graph) : ts \in Timestamps, graph \in Graphs}

SamplePowerState ==
    [timestamp |-> [seconds |-> 90, nanos |-> 5], motor_power_state |-> 1,
     shore_power_state |-> 2, locomotion_charge_percentage |-> 80,
     locomotion_estimated_runtime |-> [seconds |-> 3600, nanos |-> 0]]

SampleFault ==
    [name |-> "fault", onset_timestamp |-> [seconds |-> 50, nanos |-> 0],
     duration |-> [seconds |-> 2, nanos |-> 0], code |-> 7, uid |-> 11,
     error_message |-> "overheat", attributes |-> <<"robot">>, severity |-> 2]

SampleSystemFaultState == [faults |-> <<SampleFault>>, historical_faults |-> <<SampleFault>>]

SampleManipulatorState ==
    [gripper_open_percentage |-> 50, is_gripper_holding_item |-> TRUE,
     estimated_end_effector_force_in_hand     |-> Vec3(7, 8, 9),
     has_estimated_end_effector_force_in_hand |-> TRUE,
     stow_state |-> 1,
     velocity_of_hand_in_vision     |-> SampleVelocity,
     has_velocity_of_hand_in_vision |-> TRUE,
     velocity_of_hand_in_odom       |-> SampleVelocity,
     has_velocity_of_hand_in_odom   |-> TRUE,
     carry_state |-> 3]

SampleBehaviorFaultState ==
    [faults |-> <<[behavior_fault_id |-> 4, onset_timestamp |-> [seconds |-> 60, nanos |-> 0],
                   cause |-> 1, status |-> 2]>>]

SampleBattery ==
    [timestamp |-> [seconds |-> 99, nanos |-> 0], identifier |-> "a2302-00012345",
     charge_percentage |-> 80, estimated_runtime |-> [seconds |-> 3600, nanos |-> 0],
     current |-> 3, voltage |-> 55, temperatures |-> <<30, 31>>, status |-> 3]

SampleEstop ==
    [timestamp |-> [seconds |-> 98, nanos |-> 0], name |-> "hardware_estop",
     type |-> 1, state |-> 2, state_description |-> ""]

SampleComms ==
    <<[has_wifi_state |-> TRUE, wifi_state |-> [current_mode |-> 2, essid |-> "spot"]],
      [has_wifi_state |-> FALSE, wifi_state |-> [current_mode |-> 0, essid |-> ""]]>>

SampleFeet == <<[foot_position_rt_body |-> Vec3(1, 1, 0), contact |-> 1]>>

Optional(has, sample, default) == IF has THEN Set(sample) ELSE Unset(default)

\* every kinematic state inside an otherwise fully populated snapshot, and
\* every combination of present and absent sub-messages
RobotStates ==
    {[battery_states       |-> <<SampleBattery>>,
      comms_states         |-> SampleComms,
      foot_state           |-> SampleFeet,
      estop_states         |-> <<SampleEstop>>,
      kinematic_state      |-> Set(k),
      power_state          |-> Set(SamplePowerState),
      system_fault_state   |-> Set(SampleSystemFaultState),
      manipulator_state    |-> Set(SampleManipulatorState),
      behavior_fault_state |-> Set(SampleBehaviorFaultState)] : k \in KinematicStates}
    \cup
    {[battery_states       |-> IF lists THEN <<SampleBattery>> ELSE <<>>,
      comms_states         |-> IF lists THEN SampleComms ELSE <<>>,
      foot_state           |-> IF lists THEN SampleFeet ELSE <<>>,
      estop_states         |-> IF lists THEN <<SampleEstop>> ELSE <<>>,
      kinematic_state      |-> Optional(hk, Kinematic([seconds |-> 100, nanos |-> 0],
                                                      SampleJoints, SampleGraph),
                                        DefaultKinematicState),
      power_state          |-> Optional(hp, SamplePowerState, DefaultPowerState),
      system_fault_state   |-> Optional(hs, SampleSystemFaultState, DefaultSystemFaultState),
      manipulator_state    |-> Optional(hm, SampleManipulatorState, DefaultManipulatorState),
      behavior_fault_state |-> Optional(hb, SampleBehaviorFaultState,
                                        DefaultBehaviorFaultState)] :
        lists \in BOOLEAN, hk \in BOOLEAN, hp \in BOOLEAN, hs \in BOOLEAN,
        hm \in BOOLEAN, hb \in BOOLEAN}

\* RobotStateResultType: the status of the RPC and the response it carried
Results ==
    {[status |-> st, has_robot_state |-> TRUE, robot_state |-> rs] :
        st \in BOOLEAN, rs \in RobotStates}
      \cup {[status |-> st, has_robot_state |-> FALSE, robot_state |-> DefaultRobotState] :
              st \in BOOLEAN}

\* tl::expected<Duration, string> of TimeSyncApi::getClockSkew
SkewResults ==
    {[ok |-> TRUE, value |-> s, error |-> ""] : s \in Skews}
      \cup {[ok |-> FALSE, value |-> [seconds |-> 0, nanos |-> 0], error |-> "no time sync"]}

NoResult == [status |-> FALSE, has_robot_state |-> FALSE, robot_state |-> DefaultRobotState]

NoSkew == [ok |-> FALSE, value |-> [seconds |-> 0, nanos |-> 0], error |-> ""]

NoOut == [kind |-> "none"]

Uncalled == [called |-> FALSE]

Called(r) == [called |-> TRUE, ret |-> r]

NoCall ==
    [robot_state |-> DefaultRobotState, clock_skew |-> [seconds |-> 0, nanos |-> 0],
     prefix |-> "", inverse_target_frame_id |-> ""]

(***************************************************************************)
(* DefaultRobotStateClient::getRobotState, one action per step between     *)
(* its two blocking calls, and DefaultStateClient::getRobotState.          *)
(***************************************************************************)
\* The fixed part of each message; the text of the status or of the
\* collaborator's error that the code appends is left out.
kRobotStateError == "Failed to get robot state"

kClockSkewError == "Failed to get latest clock skew"

Unexpected(message) == [kind |-> "error", error |-> message]

\* Variant: only the status of the RPC is examined.
FetchFailed_StatusOnly(result) == ~result.status

FetchFailed(result) == ~result.status \/ ~result.has_robot_state

StateClientFetchFailed(result) == ~result.status \/ ~result.has_robot_state

\* Variant: the result of the skew lookup is not examined.
ClockSkewFailed_Unchecked(result) == FALSE

ClockSkewFailed(result) == ~result.ok

\* The braced initialiser of RobotState; an exception thrown by a helper
\* leaves getRobotState without a return value.
MakeRobotState(robot_state, clock_skew) ==
    LET joints == GetJointStates(robot_state, clock_skew, kPrefix)
    IN  IF joints.threw
        THEN [kind |-> "exception", what |-> "std::out_of_range"]
        ELSE [kind |-> "ok", value |->
               [battery_states   |-> GetBatteryStates(robot_state, clock_skew),
                wifi_state       |-> GetWifiState(robot_state),
                foot_state       |-> GetFootState(robot_state),
                estop_states     |-> GetEstopStates(robot_state, clock_skew),
                maybe_joint_states |-> joints.ret,
                maybe_tf         |-> GetTf(robot_state, clock_skew, kPrefix,
                                           kInverseTargetFrameId),
                maybe_odom_twist |-> GetOdomTwist(robot_state, clock_skew),
                maybe_odom       |-> GetOdom(robot_state, clock_skew, kPrefix,
                                             kIsUsingVision),
                maybe_power_state          |-> GetPowerState(robot_state, clock_skew),
                maybe_system_fault_state   |-> GetSystemFaultState(robot_state, clock_skew),
                maybe_manipulator_state    |-> GetManipulatorState(robot_state),
                maybe_end_effector_force   |-> GetEndEffectorForce(robot_state, clock_skew,
                                                                   kPrefix),
                maybe_behavior_fault_state |-> GetBehaviorFaultState(robot_state,
                                                                     clock_skew)]]

Init ==
    /\ pc = "start"
    /\ get_robot_state_result = NoResult
    /\ clock_skew_result = NoSkew
    /\ out = NoOut
    /\ skew_lookups = 0
    /\ fn_in = NoCall
    /\ fn_tf = Uncalled
    /\ fn_odom = [v \in BOOLEAN |-> Uncalled]

\* client_->GetRobotStateAsync() and future.get()
GetRobotStateAsync ==
    /\ pc = "start"
    /\ \E r \in Results : get_robot_state_result' = r
    /\ pc' = "got_state"
    /\ UNCHANGED <<clock_skew_result, out, skew_lookups, fn_in, fn_tf, fn_odom>>

ReturnRobotStateError ==
    /\ pc = "got_state"
    /\ FetchFailed(get_robot_state_result)
    /\ out' = Unexpected(kRobotStateError)
    /\ pc' = "done"
    /\ UNCHANGED <<get_robot_state_result, clock_skew_result, skew_lookups,
                   fn_in, fn_tf, fn_odom>>

\* time_sync_api_->getClockSkew()
getClockSkew ==
    /\ pc = "got_state"
    /\ ~FetchFailed(get_robot_state_result)
    /\ \E s \in SkewResults : clock_skew_result' = s
    /\ skew_lookups' = skew_lookups + 1
    /\ pc' = "got_skew"
    /\ UNCHANGED <<get_robot_state_result, out, fn_in, fn_tf, fn_odom>>

ReturnClockSkewError ==
    /\ pc = "got_skew"
    /\ ClockSkewFailed(clock_skew_result)
    /\ out' = Unexpected(kClockSkewError)
    /\ pc' = "done"
    /\ UNCHANGED <<get_robot_state_result, clock_skew_result, skew_lookups,
                   fn_in, fn_tf, fn_odom>>

ReturnRobotState ==
    /\ pc = "got_skew"
    /\ ~ClockSkewFailed(clock_skew_result)
    /\ out' = MakeRobotState(get_robot_state_result.robot_state, clock_skew_result.value)
    /\ pc' = "done"
    /\ UNCHANGED <<get_robot_state_result, clock_skew_result, skew_lookups,
                   fn_in, fn_tf, fn_odom>>

\* DefaultStateClient::getRobotState
StateClientGetRobotState ==
    /\ pc = "start"
    /\ \E r \in Results :
          /\ get_robot_state_result' = r
          /\ out' = IF StateClientFetchFailed(r)
                    THEN Unexpected(kRobotStateError)
                    ELSE [kind |-> "proto", value |-> r.robot_state]
    /\ pc' = "done"
    /\ UNCHANGED <<clock_skew_result, skew_lookups, fn_in, fn_tf, fn_odom>>

\* the caller takes the result; the next call starts afresh
NextCycle ==
    /\ pc = "done"
    /\ pc' = "start"
    /\ get_robot_state_result' = NoResult
    /\ clock_skew_result' = NoSkew
    /\ out' = NoOut
    /\ skew_lookups' = 0
    /\ UNCHANGED <<fn_in, fn_tf, fn_odom>>

Next ==
    \/ GetRobotStateAsync
    \/ ReturnRobotStateError
    \/ getClockSkew
    \/ ReturnClockSkewError
    \/ ReturnRobotState
    \/ StateClientGetRobotState
    \/ NextCycle

Spec == Init /\ [][Next]_vars

(***************************************************************************)
(* The helpers GetTf and GetOdom as pure functions of their arguments.     *)
(***************************************************************************)
Prefixes == {"", "Opal/"}

Targets == {"", "body", "Opal/body"}

FnRobotStates ==
    {[DefaultRobotState EXCEPT !.kinematic_state = Set(Kinematic(ts, SampleJoints, g))] :
        ts \in Timestamps, g \in Graphs}
      \cup {DefaultRobotState}

FnInputs ==
    {[robot_state |-> rs, clock_skew |-> s, prefix |-> p, inverse_target_frame_id |-> t] :
        rs \in FnRobotStates, s \in Skews, p \in Prefixes, t \in Targets}

InitFn ==
    /\ pc = "fn"
    /\ get_robot_state_result = NoResult
    /\ clock_skew_result = NoSkew
    /\ out = NoOut
    /\ skew_lookups = 0
    /\ fn_in \in FnInputs
    /\ fn_tf = Uncalled
    /\ fn_odom = [v \in BOOLEAN |-> Uncalled]

CallGetTf ==
    /\ pc = "fn"
    /\ ~fn_tf.called
    /\ fn_tf' = Called(GetTf(fn_in.robot_state, fn_in.clock_skew, fn_in.prefix,
                             fn_in.inverse_target_frame_id))
    /\ UNCHANGED <<pc, get_robot_state_result, clock_skew_result, out, skew_lookups,
                   fn_in, fn_odom>>

CallGetOdom(is_using_vision) ==
    /\ pc = "fn"
    /\ ~fn_odom[is_using_vision].called
    /\ fn_odom' = [fn_odom EXCEPT ![is_using_vision] =
                      Called(GetOdom(fn_in.robot_state, fn_in.clock_skew, fn_in.prefix,
                                     is_using_vision))]
    /\ UNCHANGED <<pc, get_robot_state_result, clock_skew_result, out, skew_lookups,
                   fn_in, fn_tf>>

NextFn ==
    \/ CallGetTf
    \/ \E v \in BOOLEAN : CallGetOdom(v)

SpecFn == InitFn /\ [][NextFn]_vars

(***************************************************************************)
(* Properties.                                                             *)
(***************************************************************************)
\* the snapshot of the cycle in progress and the value the cycle returned
Snapshot == get_robot_state_result.robot_state

Aggregated == out.value

\* the cycle of DefaultRobotStateClient has got past both blocking calls
\* with a usable skew
SkewObtained == skew_lookups = 1 /\ clock_skew_result.ok

\* stamp is raw + skew with the nanoseconds carried into the seconds
IsCorrected(stamp, raw, skew) ==
    LET n == raw.nanos + skew.nanos
        carry == IF n < 0 THEN 0 - 1 ELSE IF n >= 1000000000 THEN 1 ELSE 0
    IN  /\ stamp.sec = raw.seconds + skew.seconds + carry
        /\ stamp.nanosec = n - carry * 1000000000

\* C1: a cycle whose fetch failed, or whose response carries no robot
\* state, ends with the error "Failed to get robot state", returns no
\* aggregated state, and never consults the clock-skew collaborator.
C1_RpcErrorOnFailedFetch ==
    (pc = "done" /\ (~get_robot_state_result.status
                       \/ ~get_robot_state_result.has_robot_state))
      => /\ out = [kind |-> "error", error |-> "Failed to get robot state"]
         /\ skew_lookups = 0

C1_Witness ==
    /\ pc = "done"
    /\ get_robot_state_result.status
    /\ ~get_robot_state_result.has_robot_state
    /\ out.kind = "error"

\* C2: a cycle whose fetch succeeded with a payload and whose skew lookup
\* failed ends with the error "Failed to get latest clock skew" and returns
\* nothing else, whatever sub-messages the snapshot holds.
C2_ClockSyncErrorOnFailedSkew ==
    (pc = "done" /\ skew_lookups > 0 /\ ~clock_skew_result.ok)
      => /\ get_robot_state_result.status
         /\ get_robot_state_result.has_robot_state
         /\ out = [kind |-> "error", error |-> "Failed to get latest clock skew"]

C2_Witness ==
    /\ pc = "done"
    /\ skew_lookups = 1
    /\ ~clock_skew_result.ok
    /\ Snapshot.kinematic_state.has
    /\ Snapshot.power_state.has
    /\ Len(Snapshot.battery_states) > 0
    /\ out.kind = "error"

\* C3: a cycle that returns an aggregated state looked the skew up exactly
\* once, after the fetch had succeeded, and every timestamp of the returned
\* state is its robot timestamp plus that skew; the joint state, every
\* frame edge, the twist and the odometry carry acquisition_timestamp + skew.
C3_OneSkewEverywhere ==
    /\ skew_lookups > 0 =>
          /\ pc \in {"got_skew", "done"}
          /\ get_robot_state_result.status
          /\ get_robot_state_result.has_robot_state
    /\ (pc = "done" /\ out.kind = "ok") =>
          LET skew == clock_skew_result.value
              acq  == Snapshot.kinematic_state.msg.acquisition_timestamp
          IN  /\ skew_lookups = 1
              /\ clock_skew_result.ok
              /\ Snapshot.kinematic_state.has =>
                    /\ IsCorrected(Aggregated.maybe_joint_states.value.stamp, acq, skew)
                    /\ \A i \in 1..Len(Aggregated.maybe_tf.value.transforms) :
                          IsCorrected(Aggregated.maybe_tf.value.transforms[i].stamp, acq, skew)
                    /\ IsCorrected(Aggregated.maybe_odom_twist.value.stamp, acq, skew)
                    /\ IsCorrected(Aggregated.maybe_odom.value.stamp, acq, skew)
                    /\ (acq = [seconds |-> 100, nanos |-> 0]
                          /\ skew = [seconds |-> 5, nanos |-> 0]) =>
                          /\ Aggregated.maybe_joint_states.value.stamp
                               = [sec |-> 105, nanosec |-> 0]
                          /\ Aggregated.maybe_odom.value.stamp
                               = [sec |-> 105, nanosec |-> 0]
              /\ Snapshot.manipulator_state.has =>
                    IsCorrected(Aggregated.maybe_end_effector_force.value.stamp, acq, skew)
              /\ Snapshot.power_state.has =>
                    IsCorrected(Aggregated.maybe_power_state.value.stamp,
                                Snapshot.power_state.msg.timestamp, skew)
              /\ \A i \in 1..Len(Aggregated.battery_states) :
                    IsCorrected(Aggregated.battery_states[i].stamp,
                                Snapshot.battery_states[i].timestamp, skew)
              /\ \A i \in 1..Len(Aggregated.estop_states) :
                    IsCorrected(Aggregated.estop_states[i].stamp,
                                Snapshot.estop_states[i].timestamp, skew)
              /\ Snapshot.system_fault_state.has =>
                    \A i \in 1..Len(Aggregated.maybe_system_fault_state.value.faults) :
                        IsCorrected(Aggregated.maybe_system_fault_state.value.faults[i].stamp,
                                    Snapshot.system_fault_state.msg.faults[i].onset_timestamp,
                                    skew)
              /\ Snapshot.system_fault_state.has =>
                    \A i \in 1..Len(Aggregated.maybe_system_fault_state.value.historical_faults) :
                        IsCorrected(
                          Aggregated.maybe_system_fault_state.value.historical_faults[i].stamp,
                          Snapshot.system_fault_state.msg.historical_faults[i].onset_timestamp,
                          skew)
              /\ Snapshot.behavior_fault_state.has =>
                    \A i \in 1..Len(Aggregated.maybe_behavior_fault_state.value.faults) :
                        IsCorrected(Aggregated.maybe_behavior_fault_state.value.faults[i].stamp,
                                    Snapshot.behavior_fault_state.msg.faults[i].onset_timestamp,
                                    skew)

C3_Witness ==
    /\ pc = "done"
    /\ out.kind = "ok"
    /\ skew_lookups = 1
    /\ Snapshot.kinematic_state.has
    /\ Snapshot.kinematic_state.msg.acquisition_timestamp = [seconds |-> 100, nanos |-> 0]
    /\ clock_skew_result.value = [seconds |-> 5, nanos |-> 0]
    /\ Len(Aggregated.maybe_tf.value.transforms) = 2
    /\ Aggregated.maybe_odom_twist.value.stamp = [sec |-> 105, nanosec |-> 0]

\* C4: in a returned aggregated state each optional sub-result is present
\* exactly when its snapshot sub-message is, for every combination of
\* sub-messages, and a cycle that got its skew fails only on a snapshot
\* whose kinematic state is present.
C4_PresentIffSubMessage ==
    /\ (pc = "done" /\ out.kind = "ok") =>
          /\ Aggregated.maybe_joint_states.has_value = Snapshot.kinematic_state.has
          /\ Aggregated.maybe_tf.has_value = Snapshot.kinematic_state.has
          /\ Aggregated.maybe_odom_twist.has_value = Snapshot.kinematic_state.has
          /\ Aggregated.maybe_odom.has_value = Snapshot.kinematic_state.has
          /\ Aggregated.maybe_power_state.has_value = Snapshot.power_state.has
          /\ Aggregated.maybe_system_fault_state.has_value = Snapshot.system_fault_state.has
          /\ Aggregated.maybe_manipulator_state.has_value = Snapshot.manipulator_state.has
          /\ Aggregated.maybe_end_effector_force.has_value = Snapshot.manipulator_state.has
          /\ Aggregated.maybe_behavior_fault_state.has_value
               = Snapshot.behavior_fault_state.has
    /\ (pc = "done" /\ SkewObtained /\ out.kind # "ok") => Snapshot.kinematic_state.has

C4_Witness ==
    /\ pc = "done"
    /\ out.kind = "ok"
    /\ Snapshot.kinematic_state.has
    /\ ~Snapshot.power_state.has
    /\ Snapshot.system_fault_state.has
    /\ ~Snapshot.manipulator_state.has
    /\ ~Snapshot.behavior_fault_state.has
    /\ Aggregated.maybe_joint_states.has_value
    /\ ~Aggregated.maybe_end_effector_force.has_value

\* the arguments and the result of the GetTf call under SpecFn
FnEdges == fn_in.robot_state.kinematic_state.msg.transforms_snapshot

FnTfCalled == pc = "fn" /\ fn_tf.called /\ fn_in.robot_state.kinematic_state.has

IsTarget(i) == fn_in.inverse_target_frame_id = fn_in.prefix \o FnEdges[i].child_frame_id

\* a and b undo each other
AreInverse(a, b) ==
    /\ ComposeSE3(a, b) = IdentitySE3Pose
    /\ ComposeSE3(b, a) = IdentitySE3Pose

\* C5 as stated: the edge of the target frame is emitted with child_id =
\* prefix + child name, parent_id = prefix + parent name and the inverse of
\* the stored transform.
C5_InvertedEdgeKeepsRoles ==
    FnTfCalled =>
        \A i \in 1..Len(FnEdges) :
            IsTarget(i) =>
                /\ Len(fn_tf.ret.value.transforms) = Len(FnEdges)
                /\ fn_tf.ret.value.transforms[i].child_id
                     = fn_in.prefix \o FnEdges[i].child_frame_id
                /\ fn_tf.ret.value.transforms[i].parent_id
                     = fn_in.prefix \o FnEdges[i].parent_frame_name
                /\ AreInverse(fn_tf.ret.value.transforms[i].transform,
                              FnEdges[i].parent_tform_child)

\* C5 amended: the edge of the target frame is emitted with the frame roles
\* exchanged, parent_id = prefix + child name and child_id = prefix + parent
\* name, and the inverse of the stored transform.
C5_InvertedEdgeSwapsRoles ==
    FnTfCalled =>
        \A i \in 1..Len(FnEdges) :
            IsTarget(i) =>
                /\ Len(fn_tf.ret.value.transforms) = Len(FnEdges)
                /\ fn_tf.ret.value.transforms[i].parent_id
                     = fn_in.prefix \o FnEdges[i].child_frame_id
                /\ fn_tf.ret.value.transforms[i].child_id
                     = fn_in.prefix \o FnEdges[i].parent_frame_name
                /\ AreInverse(fn_tf.ret.value.transforms[i].transform,
                              FnEdges[i].parent_tform_child)

C5_Witness ==
    /\ FnTfCalled
    /\ fn_in.prefix = ""
    /\ fn_in.inverse_target_frame_id = "body"
    /\ Len(FnEdges) = 1
    /\ FnEdges[1].child_frame_id = "body"
    /\ FnEdges[1].parent_frame_name = "odom"
    /\ FnEdges[1].parent_tform_child.rotation = Quat(1, 0, 0, 0)
    /\ fn_tf.ret.value.transforms[1].transform
         = [position |-> Vec3(0 - 1, 2, 3), rotation |-> Quat(0 - 1, 0, 0, 0)]

\* C6: when the target matches no prefixed child name, GetTf returns one
\* edge per input edge, in input order, with both names prefixed and the
\* stored transform; an empty graph gives a present, empty sequence.
C6_PassThrough ==
    (FnTfCalled /\ \A i \in 1..Len(FnEdges) : ~IsTarget(i)) =>
        /\ fn_tf.ret.has_value
        /\ Len(fn_tf.ret.value.transforms) = Len(FnEdges)
        /\ \A i \in 1..Len(FnEdges) :
              /\ fn_tf.ret.value.transforms[i].parent_id
                   = fn_in.prefix \o FnEdges[i].parent_frame_name
              /\ fn_tf.ret.value.transforms[i].child_id
                   = fn_in.prefix \o FnEdges[i].child_frame_id
              /\ fn_tf.ret.value.transforms[i].transform = FnEdges[i].parent_tform_child
        /\ FnEdges = <<>> => fn_tf.ret = [has_value |-> TRUE, value |-> [transforms |-> <<>>]]

C6_Witness ==
    /\ FnTfCalled
    /\ fn_in.prefix = "Opal/"
    /\ fn_in.inverse_target_frame_id = "body"
    /\ Len(FnEdges) = 2
    /\ FnEdges[1].child_frame_id = "vision"
    /\ FnEdges[2].child_frame_id = "body"
    /\ fn_tf.ret.value.transforms[2].child_id = "Opal/body"
    /\ fn_tf.ret.value.transforms[2].parent_id = "Opal/odom"

\* C7: each of the six components of the twist sub-result and of the twist
\* inside the odometry equals the same-named component of the snapshot's
\* velocity of the body in odom.
C7_TwistIsBodyVelocity ==
    (pc = "done" /\ out.kind = "ok" /\ Snapshot.kinematic_state.has) =>
        LET velocity == Snapshot.kinematic_state.msg.velocity_of_body_in_odom
        IN  /\ Aggregated.maybe_odom_twist.value.twist.linear = velocity.linear
            /\ Aggregated.maybe_odom_twist.value.twist.angular = velocity.angular
            /\ Aggregated.maybe_odom.value.twist.linear = velocity.linear
            /\ Aggregated.maybe_odom.value.twist.angular = velocity.angular

\* C8: for one snapshot and prefix, GetOdom with the vision choice and with
\* the odom choice gives frame ids prefix+"vision" and prefix+"odom", child
\* frame id prefix+"body" in both, and the same twist and timestamp.
C8_ReferenceFrameChoice ==
    (pc = "fn" /\ fn_odom[TRUE].called /\ fn_odom[FALSE].called
       /\ fn_in.robot_state.kinematic_state.has) =>
        LET vision == fn_odom[TRUE].ret
            odom   == fn_odom[FALSE].ret
        IN  /\ vision.has_value /\ odom.has_value
            /\ vision.value.frame_id = fn_in.prefix \o "vision"
            /\ odom.value.frame_id = fn_in.prefix \o "odom"
            /\ vision.value.child_frame_id = fn_in.prefix \o "body"
            /\ odom.value.child_frame_id = fn_in.prefix \o "body"
            /\ vision.value.twist = odom.value.twist
            /\ vision.value.stamp = odom.value.stamp

C8_Witness ==
    /\ pc = "fn"
    /\ fn_odom[TRUE].called
    /\ fn_odom[FALSE].called
    /\ fn_in.robot_state.kinematic_state.has
    /\ fn_in.prefix = "Opal/"
    /\ fn_odom[TRUE].ret.value.frame_id = "Opal/vision"
    /\ fn_odom[FALSE].ret.value.frame_id = "Opal/odom"
    /\ fn_odom[TRUE].ret.value.pose # fn_odom[FALSE].ret.value.pose

\* C9: a cycle on a snapshot whose kinematic state is present and whose
\* transform graph has no path between the vision frame and the body frame
\* does not return an aggregated state.
C9_NoPathFailsCycle ==
    (pc = "done" /\ SkewObtained /\ Snapshot.kinematic_state.has
       /\ ~GetWorldTformBody(Snapshot.kinematic_state.msg.transforms_snapshot).ok)
      => out.kind # "ok"

\* C10: a joint whose raw name is not in the table makes the cycle end in
\* the exception of the lookup, with no aggregated state; otherwise the
\* joint state has one entry per joint, in order, named prefix + friendly
\* name, with the joint's position, velocity and load.
C10_JointNamesFailFast ==
    (pc = "done" /\ SkewObtained /\ Snapshot.kinematic_state.has) =>
        LET joints == Snapshot.kinematic_state.msg.joint_states
        IN  IF \E i \in 1..Len(joints) : joints[i].name \notin DOMAIN kFriendlyJointNames
            THEN out = [kind |-> "exception", what |-> "std::out_of_range"]
            ELSE /\ out.kind = "ok"
                 /\ Len(Aggregated.maybe_joint_states.value.name) = Len(joints)
                 /\ Len(Aggregated.maybe_joint_states.value.position) = Len(joints)
                 /\ Len(Aggregated.maybe_joint_states.value.velocity) = Len(joints)
                 /\ Len(Aggregated.maybe_joint_states.value.effort) = Len(joints)
                 /\ \A i \in 1..Len(joints) :
                       /\ Aggregated.maybe_joint_states.value.name[i]
                            = "Opal/" \o kFriendlyJointNames[joints[i].name]
                       /\ joints[i].name = "fl.hx" =>
                            Aggregated.maybe_joint_states.value.name[i]
                              = "Opal/front_left_hip_x"
                       /\ Aggregated.maybe_joint_states.value.position[i]
                            = joints[i].position
                       /\ Aggregated.maybe_joint_states.value.velocity[i]
                            = joints[i].velocity
                       /\ Aggregated.maybe_joint_states.value.effort[i] = joints[i].load

C10_Witness ==
    /\ pc = "done"
    /\ SkewObtained
    /\ Snapshot.kinematic_state.has
    /\ Len(Snapshot.kinematic_state.msg.joint_states) = 2
    /\ Snapshot.kinematic_state.msg.joint_states[1].name = "fl.hx"
    /\ Snapshot.kinematic_state.msg.joint_states[2].name = "xx.yy"
    /\ out.kind = "exception"

\* C11: with the prefix "Opal/" and the target "body" that getRobotState
\* passes to GetTf, no prefixed child name equals the target, so every frame
\* edge of a returned aggregated state is the stored edge with both names
\* prefixed and the stored transform, the edge of the body frame included.
C11_NoEdgeInverted ==
    (pc = "done" /\ out.kind = "ok" /\ Snapshot.kinematic_state.has) =>
        LET edges == Snapshot.kinematic_state.msg.transforms_snapshot
        IN  /\ Len(Aggregated.maybe_tf.value.transforms) = Len(edges)
            /\ \A i \in 1..Len(edges) :
                  /\ kPrefix \o edges[i].child_frame_id # kInverseTargetFrameId
                  /\ Aggregated.maybe_tf.value.transforms[i].parent_id
                       = "Opal/" \o edges[i].parent_frame_name
                  /\ Aggregated.maybe_tf.value.transforms[i].child_id
                       = "Opal/" \o edges[i].child_frame_id
                  /\ Aggregated.maybe_tf.value.transforms[i].transform
                       = edges[i].parent_tform_child

C11_Witness ==
    /\ pc = "done"
    /\ out.kind = "ok"
    /\ Snapshot.kinematic_state.has
    /\ Len(Snapshot.kinematic_state.msg.transforms_snapshot) = 2
    /\ Snapshot.kinematic_state.msg.transforms_snapshot[2].child_frame_id = "body"
    /\ Snapshot.kinematic_state.msg.transforms_snapshot[2].parent_frame_name = "odom"
    /\ Snapshot.kinematic_state.msg.transforms_snapshot[2].parent_tform_child.rotation
         = Quat(1, 0, 0, 0)
    /\ Aggregated.maybe_tf.value.transforms[2]
         = [stamp     |-> Aggregated.maybe_tf.value.transforms[1].stamp,
            parent_id |-> "Opal/odom",
            child_id  |-> "Opal/body",
            transform |-> [position |-> Vec3(1, 2, 3), rotation |-> Quat(1, 0, 0, 0)]]

====
